---- MODULE Spec2Model ----
(***************************************************************************)
(* A model of kaggle_update_bitcoin.py: the daily script that finds the    *)
(* UTC days missing from the published minute-bar dataset, requests each   *)
(* missing day from the Bitstamp OHLC endpoint in 12-hour chunks, and      *)
(* merges the rows it got into the dataset file.                           *)
(*                                                                         *)
(* Time is in seconds since the epoch, as in the script.  A day is a day   *)
(* index d (the UTC date whose midnight is d * SecondsPerDay).  Of the     *)
(* 1440 minutes of a day the model keeps the minutes at SampleOffsets.     *)
(* A table cell is [kind, val]: kind "str" for the text the API returns,   *)
(* kind "num" for a parsed number; val is the number the cell denotes.     *)
(***************************************************************************)
EXTENDS Integers, Sequences, FiniteSets, TLC

\* ---- bounds of the model
MaxDay == 3
DailyHorizon == 5
MaxNew == 2
MaxChunks == 3
MaxRows == 2

\* ---- constants of the script
step == 60
chunk_size == 12 * 60 * 60
SecondsPerDay == 24 * 60 * 60

VARIABLES
    today,            \* datetime.now(timezone.utc).date(), a day index
    csv,              \* upload/btcusd_1-min_data.csv, as read_csv reads it
    downloaded,       \* the file as download_latest_dataset left it this run
    pc,               \* the script's position
    missing_days,     \* main's missing_days
    day_i,            \* position of "for day in missing_days"
    start_timestamp,  \* of the current day
    end_timestamp,
    current_start,    \* the chunk loop's cursor
    time_chunks,
    chunk_i,          \* position of "for chunk_start, chunk_end in time_chunks"
    day_data,
    all_new_data,
    df_existing,
    requests,         \* the GET requests issued in this run, in order
    written,          \* whether this run called to_csv
    lost,             \* windows whose request failed in an earlier run and
                      \* that the dataset's last timestamp had passed
    initLastTs        \* the last timestamp of the first dataset downloaded

vars == <<today, csv, downloaded, pc, missing_days, day_i, start_timestamp,
          end_timestamp, current_start, time_chunks, chunk_i, day_data,
          all_new_data, df_existing, requests, written, lost, initLastTs>>

\* ------------------------------------------------------------------------
\* Cells, rows and frames
\* ------------------------------------------------------------------------
Str(n) == [kind |-> "str", val |-> n]
Num(n) == [kind |-> "num", val |-> n]

Min(a, b) == IF a < b THEN a ELSE b

\* The sample minutes of the days 0..d.
SampleOffsets == {0, chunk_size}
SampleTs(d) == {k * SecondsPerDay + o : k \in 0..d, o \in SampleOffsets}

\* The OHLCV values of a bar with quote q: one distinct number per field.
FieldValue(q, k) == 10 * q + k

\* One row of the API's "ohlc" list: a JSON object, its fields in the order
\* the response lists them, every value a text.
UpstreamRow(ts, q) ==
    << <<"timestamp", Str(ts)>>, <<"open", Str(FieldValue(q, 1))>>,
       <<"high", Str(FieldValue(q, 2))>>, <<"low", Str(FieldValue(q, 3))>>,
       <<"close", Str(FieldValue(q, 4))>>, <<"volume", Str(FieldValue(q, 5))>> >>

\* One row of the dataset file as read_csv reads it.
Bar(ts, q) ==
    [Timestamp |-> Num(ts), Open |-> Num(FieldValue(q, 1)),
     High |-> Num(FieldValue(q, 2)), Low |-> Num(FieldValue(q, 3)),
     Close |-> Num(FieldValue(q, 4)), Volume |-> Num(FieldValue(q, 5))]

\* The quote the market had at a minute (the honest upstream's answer).
Quotes == {1, 2}
MarketQuote(ts) == 1 + ((ts \div chunk_size) % 2)

RECURSIVE SetToSeq(_)
SetToSeq(S) ==
    IF S = {} THEN <<>>
    ELSE LET m == CHOOSE x \in S : \A y \in S : x <= y
         IN <<m>> \o SetToSeq(S \ {m})

\* pd.concat(frames, ignore_index=True)
RECURSIVE concat(_)
concat(frames) ==
    IF frames = <<>> THEN <<>> ELSE Head(frames) \o concat(Tail(frames))

\* ------------------------------------------------------------------------
\* check_missing_days
\* ------------------------------------------------------------------------
\* (variant: the first timestamp taken for the last one)
MinTimestamp(df) ==
    CHOOSE m \in {df[i].Timestamp.val : i \in 1..Len(df)} :
        \A i \in 1..Len(df) : m <= df[i].Timestamp.val

\* df["datetime"].max(): the largest Timestamp of a non-empty frame.
MaxTimestamp(df) ==
    CHOOSE m \in {df[i].Timestamp.val : i \in 1..Len(df)} :
        \A i \in 1..Len(df) : df[i].Timestamp.val <= m

\* pd.to_datetime(ts, unit="s", utc=True).date()
UtcDate(ts) == ts \div SecondsPerDay

\* pd.date_range(start, end, normalize=True, freq="D"), start <= end
date_range(start, end) == [i \in 1..(end - start + 1) |-> start + i - 1]

\* (variant: today counted as a complete day)
check_missing_days_today(df, now_date) ==
    LET last_date == UtcDate(MaxTimestamp(df))
        yesterday == now_date
    IN IF last_date < yesterday
       THEN date_range(last_date + 1, yesterday)
       ELSE <<>>

\* (variant: the last recorded day fetched again)
check_missing_days_refetch(df, now_date) ==
    LET last_date == UtcDate(MaxTimestamp(df))
        yesterday == now_date - 1
    IN IF last_date <= yesterday
       THEN date_range(last_date, yesterday)
       ELSE <<>>

check_missing_days(df, now_date) ==
    LET last_date == UtcDate(MaxTimestamp(df))
        yesterday == now_date - 1
    IN IF last_date < yesterday
       THEN date_range(last_date + 1, yesterday)
       ELSE <<>>

\* ------------------------------------------------------------------------
\* fetch_bitstamp_data
\* ------------------------------------------------------------------------
\* A response is [status, ohlc]: status "ok" (2xx), "http_error" (non-2xx,
\* raise_for_status raises) or "timeout" (requests.get raises); ohlc is the
\* row list of the body.
\* (variant: the status not checked)
fetch_bitstamp_data_unchecked(resp) == resp.ohlc

fetch_bitstamp_data(resp) ==
    IF resp.status = "ok" THEN resp.ohlc ELSE <<>>

\* ------------------------------------------------------------------------
\* The day loop: partition, normalisation
\* ------------------------------------------------------------------------
\* current_end of one iteration of the chunk loop
\* (variant: the last chunk not clipped to the end)
ChunkEnd_unclipped(cs, e) == cs + chunk_size

ChunkEnd(cs, e) == Min(cs + chunk_size, e)

\* The value of a row's field, by name.
Cell(row, key) ==
    LET k == CHOOSE k \in 1..Len(row) : row[k][1] = key IN row[k][2]

\* pd.to_numeric of a text cell
to_numeric(c) == Num(c.val)

\* pd.DataFrame(day_data): the columns are the fields in the order the first
\* row lists them; then the "timestamp" column is made numeric.
FrameColumns(data) == [k \in 1..Len(data[1]) |-> data[1][k][1]]

FrameCell(row, key) ==
    IF key = "timestamp" THEN to_numeric(Cell(row, key)) ELSE Cell(row, key)

\* df_day.columns = [...]: the k-th column takes the k-th dataset name.
RenameColumns(data) ==
    LET cols == FrameColumns(data)
    IN [i \in 1..Len(data) |->
           [Timestamp |-> FrameCell(data[i], cols[1]),
            Open      |-> FrameCell(data[i], cols[2]),
            High      |-> FrameCell(data[i], cols[3]),
            Low       |-> FrameCell(data[i], cols[4]),
            Close     |-> FrameCell(data[i], cols[5]),
            Volume    |-> FrameCell(data[i], cols[6])]]

\* ------------------------------------------------------------------------
\* The merge
\* ------------------------------------------------------------------------
\* The rows of df at the indices of S, in df's order.
RECURSIVE TakeRows(_, _, _)
TakeRows(df, S, i) ==
    IF i > Len(df) THEN <<>>
    ELSE (IF i \in S THEN <<df[i]>> ELSE <<>>) \o TakeRows(df, S, i + 1)

\* (variants: no deduplication; keep="last")
drop_duplicates_none(df) == df

drop_duplicates_last(df) ==
    TakeRows(df, {i \in 1..Len(df) :
                    \A j \in (i + 1)..Len(df) : df[j].Timestamp # df[i].Timestamp}, 1)

\* df.drop_duplicates(subset="Timestamp", keep="first")
drop_duplicates(df) ==
    TakeRows(df, {i \in 1..Len(df) :
                    \A j \in 1..(i - 1) : df[j].Timestamp # df[i].Timestamp}, 1)

RECURSIVE InsertSorted(_, _)
InsertSorted(row, df) ==
    IF df = <<>> THEN <<row>>
    ELSE IF row.Timestamp.val < Head(df).Timestamp.val THEN <<row>> \o df
    ELSE <<Head(df)>> \o InsertSorted(row, Tail(df))

RECURSIVE SortRows(_, _)
SortRows(df, i) ==
    IF i = 0 THEN <<>> ELSE InsertSorted(df[i], SortRows(df, i - 1))

\* (variant: no sort)
sort_values_none(df) == df

\* df.sort_values(by="Timestamp", ascending=True)
sort_values(df) == SortRows(df, Len(df))

\* df.to_csv(output_filename, index=False), as read_csv reads the file back:
\* every cell is written as text and parsed as a number.
to_csv(df) ==
    [i \in 1..Len(df) |-> [c \in DOMAIN df[i] |-> Num(df[i][c].val)]]

\* The file fetch_and_append_missing_data writes (lines 171-190).
CombinedOutput(existing, new_frames) ==
    IF new_frames # <<>>
    THEN LET df_new == concat(new_frames)
             df_combined == existing \o df_new
         IN to_csv(sort_values(drop_duplicates(df_combined)))
    ELSE to_csv(existing)

\* ------------------------------------------------------------------------
\* The upstream API and the datasets the model starts from
\* ------------------------------------------------------------------------
\* The sample minutes the API has in the window [cs, ce], bounds inclusive.
WindowMinutes(cs, ce) ==
    {t \in SampleTs(DailyHorizon + 1) : cs <= t /\ t <= ce}

RowsFor(S) ==
    LET ts == SetToSeq(S)
    IN [i \in 1..Len(ts) |-> UpstreamRow(ts[i], MarketQuote(ts[i]))]

BarsFor(S) ==
    LET ts == SetToSeq(S)
    IN [i \in 1..Len(ts) |-> Bar(ts[i], MarketQuote(ts[i]))]

\* What a request for [cs, ce] may get: any part of the window's rows, an
\* error status (whatever the body holds), or no response at all.
Responses(cs, ce) ==
    {[status |-> "ok", ohlc |-> RowsFor(S)] : S \in SUBSET WindowMinutes(cs, ce)}
    \cup {[status |-> "http_error", ohlc |-> RowsFor(WindowMinutes(cs, ce))],
          [status |-> "timeout", ohlc |-> <<>>]}

HonestResponse(cs, ce) ==
    [status |-> "ok", ohlc |-> RowsFor(WindowMinutes(cs, ce))]

\* The published datasets a first run may download: sorted, one bar per
\* timestamp, as every file this script writes is.
InitDatasets ==
    {BarsFor(S) : S \in {T \in SUBSET SampleTs(1) :
                            T # {} /\ Cardinality(T) <= 2}}

\* ------------------------------------------------------------------------
\* The script, step by step
\* ------------------------------------------------------------------------
Init ==
    /\ csv \in InitDatasets
    /\ today \in 0..MaxDay
    /\ UtcDate(MaxTimestamp(csv)) <= today
    /\ downloaded = csv
    /\ initLastTs = MaxTimestamp(csv)
    /\ pc = "check"
    /\ missing_days = <<>>
    /\ day_i = 0
    /\ start_timestamp = 0
    /\ end_timestamp = 0
    /\ current_start = 0
    /\ time_chunks = <<>>
    /\ chunk_i = 0
    /\ day_data = <<>>
    /\ all_new_data = <<>>
    /\ df_existing = <<>>
    /\ requests = <<>>
    /\ written = FALSE
    /\ lost = {}

\* __main__, lines 217-228, and the head of fetch_and_append_missing_data
\* (lines 111-113) when there are days to fetch.
CheckMissingDays ==
    /\ pc = "check"
    /\ LET md == check_missing_days(csv, today)
       IN /\ missing_days' = md
          /\ IF Len(md) > 0
             THEN /\ df_existing' = csv
                  /\ day_i' = 1
                  /\ pc' = "day"
             ELSE /\ df_existing' = df_existing
                  /\ day_i' = day_i
                  /\ pc' = "done"
    /\ all_new_data' = <<>>
    /\ UNCHANGED <<today, csv, downloaded, start_timestamp, end_timestamp,
                   current_start, time_chunks, chunk_i, day_data, requests,
                   written, lost, initLastTs>>

\* Lines 115-135: the day's midnight-to-midnight range, the loop's cursor.
StartDay ==
    /\ pc = "day"
    /\ LET day == missing_days[day_i]
       IN /\ start_timestamp' = day * SecondsPerDay
          /\ end_timestamp' = day * SecondsPerDay + SecondsPerDay
          /\ current_start' = day * SecondsPerDay
    /\ time_chunks' = <<>>
    /\ pc' = "partition"
    /\ UNCHANGED <<today, csv, downloaded, missing_days, day_i, chunk_i,
                   day_data, all_new_data, df_existing, requests, written,
                   lost, initLastTs>>

\* Lines 137-140, one iteration; on leaving the loop, line 142.
WhileChunk ==
    /\ pc = "partition"
    /\ current_start < end_timestamp
    /\ LET current_end == ChunkEnd(current_start, end_timestamp)
       IN /\ time_chunks' = Append(time_chunks, <<current_start, current_end>>)
          /\ current_start' = current_end
          /\ pc' = IF current_end < end_timestamp THEN "partition" ELSE "fetch"
    /\ day_data' = <<>>
    /\ chunk_i' = 1
    /\ UNCHANGED <<today, csv, downloaded, missing_days, day_i,
                   start_timestamp, end_timestamp, all_new_data, df_existing,
                   requests, written, lost, initLastTs>>

\* Lines 143-149, one iteration, the upstream answering resp.
Fetch(resp) ==
    /\ pc = "fetch"
    /\ LET chunk == time_chunks[chunk_i]
       IN requests' = Append(requests,
                             [start |-> chunk[1], end |-> chunk[2],
                              status |-> resp.status, rows |-> Len(resp.ohlc)])
    /\ day_data' = day_data \o fetch_bitstamp_data(resp)
    /\ chunk_i' = chunk_i + 1
    /\ pc' = IF chunk_i < Len(time_chunks) THEN "fetch" ELSE "endday"
    /\ UNCHANGED <<today, csv, downloaded, missing_days, day_i,
                   start_timestamp, end_timestamp, current_start, time_chunks,
                   all_new_data, df_existing, written, lost, initLastTs>>

FetchChunk ==
    /\ pc = "fetch"
    /\ \E resp \in Responses(time_chunks[chunk_i][1], time_chunks[chunk_i][2]) :
          Fetch(resp)

FetchChunkHonest ==
    /\ pc = "fetch"
    /\ Fetch(HonestResponse(time_chunks[chunk_i][1], time_chunks[chunk_i][2]))

\* Lines 151-168, and the day loop's next iteration or exit.
EndDay ==
    /\ pc = "endday"
    /\ all_new_data' = IF day_data # <<>>
                       THEN Append(all_new_data, RenameColumns(day_data))
                       ELSE all_new_data
    /\ IF day_i < Len(missing_days)
       THEN day_i' = day_i + 1 /\ pc' = "day"
       ELSE day_i' = day_i /\ pc' = "combine"
    /\ UNCHANGED <<today, csv, downloaded, missing_days, start_timestamp,
                   end_timestamp, current_start, time_chunks, chunk_i,
                   day_data, df_existing, requests, written, lost, initLastTs>>

\* Lines 171-190.
CombineAndSave ==
    /\ pc = "combine"
    /\ csv' = CombinedOutput(df_existing, all_new_data)
    /\ written' = TRUE
    /\ pc' = "done"
    /\ UNCHANGED <<today, downloaded, missing_days, day_i, start_timestamp,
                   end_timestamp, current_start, time_chunks, chunk_i,
                   day_data, all_new_data, df_existing, requests, lost,
                   initLastTs>>

\* The windows of this run whose request failed and that the dataset's last
\* timestamp now lies past.
LostNow ==
    {<<requests[i].start, requests[i].end>> :
        i \in {j \in 1..Len(requests) :
                 /\ requests[j].status # "ok"
                 /\ \E k \in 1..Len(csv) :
                        csv[k].Timestamp.val > requests[j].end}}

\* The next invocation of the script, on the day d: the published file is
\* downloaded again (lines 208-215) and the script starts afresh.
Restart(d) ==
    /\ pc = "done"
    /\ today' = d
    /\ downloaded' = csv
    /\ lost' = lost \cup LostNow
    /\ pc' = "check"
    /\ missing_days' = <<>>
    /\ day_i' = 0
    /\ start_timestamp' = 0
    /\ end_timestamp' = 0
    /\ current_start' = 0
    /\ time_chunks' = <<>>
    /\ chunk_i' = 0
    /\ day_data' = <<>>
    /\ all_new_data' = <<>>
    /\ df_existing' = <<>>
    /\ requests' = <<>>
    /\ written' = FALSE
    /\ UNCHANGED <<csv, initLastTs>>

\* Invoked again at any later time.
NextRun == \E d \in today..MaxDay : Restart(d)

\* Invoked once per UTC day.
NextDay == today < DailyHorizon /\ Restart(today + 1)

Next ==
    \/ CheckMissingDays
    \/ StartDay
    \/ WhileChunk
    \/ FetchChunk
    \/ EndDay
    \/ CombineAndSave
    \/ NextRun

Spec == Init /\ [][Next]_vars

\* ---- the script run once per UTC day against an upstream that always
\* answers with every bar of the window
NextDaily ==
    \/ CheckMissingDays
    \/ StartDay
    \/ WhileChunk
    \/ FetchChunkHonest
    \/ EndDay
    \/ CombineAndSave
    \/ NextDay

SpecDaily == Init /\ [][NextDaily]_vars /\ WF_vars(NextDaily)

\* ------------------------------------------------------------------------
\* The chunk loop alone, on any range start < end
\* ------------------------------------------------------------------------
ChunkStarts == {0, 1, step, SecondsPerDay, SecondsPerDay + chunk_size - 1}

ChunkLengths ==
    {m * chunk_size + delta :
        m \in 0..(MaxChunks - 1), delta \in {1, step, chunk_size - 1, chunk_size}}

Idle ==
    /\ today = 0
    /\ missing_days = <<0>>
    /\ day_i = 1
    /\ chunk_i = 0
    /\ requests = <<>>
    /\ written = FALSE
    /\ lost = {}
    /\ initLastTs = 0

InitChunks ==
    /\ Idle
    /\ pc = "partition"
    /\ start_timestamp \in ChunkStarts
    /\ \E len \in ChunkLengths : end_timestamp = start_timestamp + len
    /\ current_start = start_timestamp
    /\ time_chunks = <<>>
    /\ csv = <<>>
    /\ downloaded = <<>>
    /\ df_existing = <<>>
    /\ day_data = <<>>
    /\ all_new_data = <<>>

NextChunks == WhileChunk

SpecChunks == InitChunks /\ [][NextChunks]_vars /\ WF_vars(NextChunks)

\* ------------------------------------------------------------------------
\* The normalisation alone, on responses listing the fields in any order
\* ------------------------------------------------------------------------
Reorder(row, p) == [k \in 1..Len(row) |-> row[p[k]]]

NormalizeInputs ==
    UNION {{[i \in 1..Len(qs) |-> Reorder(UpstreamRow((i - 1) * step, qs[i]), p)] :
               p \in Permutations(1..6)} :
           qs \in UNION {[1..m -> Quotes] : m \in 1..MaxRows}}

InitNormalize ==
    /\ Idle
    /\ pc = "endday"
    /\ day_data \in NormalizeInputs
    /\ all_new_data = <<>>
    /\ start_timestamp = 0
    /\ end_timestamp = SecondsPerDay
    /\ current_start = SecondsPerDay
    /\ time_chunks = <<>>
    /\ csv = <<>>
    /\ downloaded = <<>>
    /\ df_existing = <<>>

NextNormalize == EndDay

SpecNormalize == InitNormalize /\ [][NextNormalize]_vars

\* ------------------------------------------------------------------------
\* The merge alone, on any existing dataset and any fetched rows
\* ------------------------------------------------------------------------
MergeTs == {0, step, 2 * step}

SeqsUpTo(S, n) == UNION {[1..k -> S] : k \in 0..n}

\* A fetched row as lines 152-163 leave it.
NewBar(ts, q) == RenameColumns(<<UpstreamRow(ts, q)>>)[1]

NewRows == {NewBar(ts, q) : ts \in MergeTs, q \in Quotes}

\* rows cut into frames after the positions of cuts
RECURSIVE SplitRows(_, _, _, _)
SplitRows(rows, cuts, i, cur) ==
    IF i > Len(rows) THEN (IF cur = <<>> THEN <<>> ELSE <<cur>>)
    ELSE IF i \in cuts
         THEN <<Append(cur, rows[i])>> \o SplitRows(rows, cuts, i + 1, <<>>)
         ELSE SplitRows(rows, cuts, i + 1, Append(cur, rows[i]))

\* all_new_data: at most MaxNew fetched rows, in any order, in any frames
MergeNewData ==
    {SplitRows(r, c, 1, <<>>) :
        r \in SeqsUpTo(NewRows, MaxNew), c \in SUBSET (1..(MaxNew - 1))}

\* existing datasets: sorted, one bar per timestamp, any values
MergeDatasets ==
    UNION {{[i \in 1..Cardinality(S) |-> Bar(SetToSeq(S)[i], f[SetToSeq(S)[i]])] :
               f \in [S -> Quotes]} :
           S \in (SUBSET MergeTs) \ {{}}}

InitMerge ==
    /\ Idle
    /\ pc = "combine"
    /\ df_existing \in MergeDatasets
    /\ all_new_data \in MergeNewData
    /\ csv = df_existing
    /\ downloaded = df_existing
    /\ day_data = <<>>
    /\ start_timestamp = 0
    /\ end_timestamp = SecondsPerDay
    /\ current_start = SecondsPerDay
    /\ time_chunks = <<>>

NextMerge == CombineAndSave

SpecMerge == InitMerge /\ [][NextMerge]_vars

\* ========================================================================
\* Claims
\* ========================================================================
HasBarAt(df, t) == \E j \in 1..Len(df) : df[j].Timestamp.val = t

RunMerged == pc = "done" /\ written

\* C1 -- No data loss: when fetch_and_append_missing_data has written its
\* output, every bar of the existing dataset is in the output exactly once
\* and unchanged, and no other output bar carries its timestamp, even when
\* a fetched row has the same timestamp and other values.
C1_NoDataLoss ==
    RunMerged =>
        \A i \in 1..Len(df_existing) :
            /\ Cardinality({j \in 1..Len(csv) : csv[j] = df_existing[i]}) = 1
            /\ \A j \in 1..Len(csv) :
                   csv[j].Timestamp = df_existing[i].Timestamp
                       => csv[j] = df_existing[i]

\* C1 witness: a merge has been written where a fetched row had the timestamp
\* of an existing bar and another Open value.
C1_Witness ==
    /\ RunMerged
    /\ \E i \in 1..Len(df_existing) :
          \E r \in 1..Len(concat(all_new_data)) :
              /\ concat(all_new_data)[r].Timestamp = df_existing[i].Timestamp
              /\ concat(all_new_data)[r].Open.val # df_existing[i].Open.val

C7_Idempotence ==
    RunMerged => CombinedOutput(csv, all_new_data) = csv

\* C7 witness: a merge has been written that added fetched rows to the
\* existing dataset.
C7_Witness ==
    /\ RunMerged
    /\ all_new_data # <<>>
    /\ Len(csv) > Len(df_existing)

\* C3 -- Partition completeness: the chunk loop terminates, and when it has,
\* the chunks start at start, end at end, each is non-empty and at most
\* chunk_size long, and each begins where the one before it ended.
PartitionComplete ==
    LET n == Len(time_chunks)
    IN /\ n >= 1
       /\ time_chunks[1][1] = start_timestamp
       /\ time_chunks[n][2] = end_timestamp
       /\ \A i \in 1..n :
              /\ time_chunks[i][1] < time_chunks[i][2]
              /\ time_chunks[i][2] - time_chunks[i][1] <= chunk_size
       /\ \A i \in 1..(n - 1) : time_chunks[i][2] = time_chunks[i + 1][1]

C3_PartitionCompleteness ==
    /\ [](pc = "fetch" => PartitionComplete)
    /\ <>(pc = "fetch")

\* C3 witness: the loop has ended after three chunks, the last one clipped.
C3_Witness ==
    /\ pc = "fetch"
    /\ Len(time_chunks) = 3
    /\ time_chunks[3][2] - time_chunks[3][1] < chunk_size

\* C4 -- Whole-day gap detection: with d the UTC date of the dataset's last
\* timestamp, days are reported iff d is before yesterday, and then they are
\* d + 1, d + 2, ..., yesterday, each once, ascending.
C4_GapDetection ==
    pc # "check" =>
        \A d \in 0..(today + 1) :
            (/\ \A j \in 1..Len(downloaded) :
                   downloaded[j].Timestamp.val < (d + 1) * SecondsPerDay
             /\ \E j \in 1..Len(downloaded) :
                   downloaded[j].Timestamp.val >= d * SecondsPerDay)
            => /\ (missing_days # <<>>) <=> (d < today - 1)
               /\ missing_days # <<>> => Len(missing_days) = today - 1 - d
               /\ \A i \in 1..Len(missing_days) : missing_days[i] = d + i

\* C4 witness: the detector has reported a gap of two days or more.
C4_Witness == pc = "day" /\ Len(missing_days) >= 2

\* The dataset downloaded by this run has no gap of whole days.
NoGap == UtcDate(MaxTimestamp(downloaded)) >= today - 1

\* C5 as stated -- with no gap, a finished run has issued no request and has
\* rewritten the dataset unchanged.
C5_AsStated ==
    (pc = "done" /\ NoGap) =>
        (requests = <<>> /\ written /\ csv = downloaded)

\* C5 as amended -- with no gap, a finished run has issued no request, has
\* not written the dataset file, and the file is as it was downloaded.
C5_NoGapShortCircuit ==
    (pc = "done" /\ NoGap) =>
        (requests = <<>> /\ ~written /\ csv = downloaded)

\* C5 witness: a run has finished on a dataset with no gap.
C5_Witness == pc = "done" /\ NoGap /\ missing_days = <<>>

RECURSIVE OkRows(_)
OkRows(reqs) ==
    IF reqs = <<>> THEN 0
    ELSE (IF Head(reqs).status = "ok" THEN Head(reqs).rows ELSE 0)
         + OkRows(Tail(reqs))

\* C6 -- Failures are not fatal and not retried: a run that found missing
\* days ends with the output written, having issued one request per chunk,
\* in ascending order, from the first missing day's midnight to the midnight
\* after the last one, whatever failed; and the fetched rows are exactly
\* those of the requests that succeeded.
C6_FailuresNotFatal ==
    (pc = "done" /\ missing_days # <<>>) =>
        LET n == Len(requests)
        IN /\ written
           /\ n >= 1
           /\ requests[1].start = missing_days[1] * SecondsPerDay
           /\ requests[n].end =
                  (missing_days[Len(missing_days)] + 1) * SecondsPerDay
           /\ \A k \in 1..n :
                  requests[k].end =
                      Min(requests[k].start + chunk_size,
                          (UtcDate(requests[k].start) + 1) * SecondsPerDay)
           /\ \A k \in 1..(n - 1) :
                  /\ requests[k].start < requests[k + 1].start
                  /\ requests[k].end = requests[k + 1].start
           /\ Len(concat(all_new_data)) = OkRows(requests)

\* C6 witness: a run over two days or more has finished after a request
\* failed with an error status and a later request returned rows.
C6_Witness ==
    /\ pc = "done"
    /\ Len(missing_days) >= 2
    /\ \E k \in 1..Len(requests) :
          /\ requests[k].status = "http_error"
          /\ \E m \in (k + 1)..Len(requests) :
                 requests[m].status = "ok" /\ requests[m].rows > 0

\* C8 as stated -- every normalised row carries the upstream row's timestamp
\* as Timestamp, open as Open, high as High, low as Low, close as Close and
\* volume as Volume, whatever the order of the fields in the response.
C8_FieldByField ==
    (pc = "combine" /\ day_data # <<>> /\ all_new_data # <<>>) =>
        LET df_day == all_new_data[Len(all_new_data)]
        IN \A i \in 1..Len(day_data) :
               /\ df_day[i].Timestamp.val = Cell(day_data[i], "timestamp").val
               /\ df_day[i].Open.val = Cell(day_data[i], "open").val
               /\ df_day[i].High.val = Cell(day_data[i], "high").val
               /\ df_day[i].Low.val = Cell(day_data[i], "low").val
               /\ df_day[i].Close.val = Cell(day_data[i], "close").val
               /\ df_day[i].Volume.val = Cell(day_data[i], "volume").val

\* C9 as stated -- run once per UTC day against an upstream that returns
\* every bar of each window: by the run of the last day of the horizon,
\* every minute after the dataset's initial last timestamp, up to the end
\* of the day before yesterday, has a bar.
C9_EventualCoverage ==
    (pc = "done" /\ today = DailyHorizon) =>
        \A t \in SampleTs(DailyHorizon - 2) :
            t > initLastTs => HasBarAt(csv, t)

\* C10 -- Latent internal gap: once a window's request has failed and the
\* merged dataset's last timestamp lies past that window, no later run
\* reports a day that reaches back into the window, and no later request
\* starts before the window's end.
C10_LatentGap ==
    \A w \in lost :
        /\ missing_days = <<>> \/ missing_days[1] * SecondsPerDay >= w[2]
        /\ \A k \in 1..Len(requests) : requests[k].start >= w[2]

\* C10 witness: a later run has found the dataset current and finished
\* while a minute of a failed window still has no bar.
C10_Witness ==
    /\ pc = "done"
    /\ missing_days = <<>>
    /\ \E w \in lost :
          \E t \in WindowMinutes(w[1], w[2]) : ~HasBarAt(csv, t)

====
